---- MODULE Spec2Model ----
(***************************************************************************)
(* A model of src/app.js, the SysView dashboard server: the two formatters, *)
(* the six collectors, the geolocation client, the two presenters and the   *)
(* request handler of http.createServer.                                    *)
(*                                                                          *)
(* Numbers.  TLC integers are 32 bits wide, a byte count is a JavaScript    *)
(* number that goes far beyond that.  A byte count is therefore written     *)
(* [m |-> mantissa, e |-> exponent] and stands for m * 1024^e; with e = 0   *)
(* it is the plain integer m.  Math.log, Math.pow and the division are      *)
(* taken as exact real arithmetic.                                          *)
(*                                                                          *)
(* JavaScript values are tagged records: [t |-> "undefined"],               *)
(* [t |-> "null"], [t |-> "string", v |-> s], [t |-> "number", v |-> n],    *)
(* [t |-> "object", v |-> function from property names to values].         *)
(***************************************************************************)
EXTENDS Integers, Sequences, FiniteSets, TLC

VARIABLES
  host,       \* what the os and process modules report on this machine
  serverUp,   \* the node process is running
  req,        \* req[r]: the handling of request r by the createServer callback
  bytesCall,  \* one call of formatBytes: arguments and return value
  timeCall    \* one call of formatTime: argument and return value

vars == <<host, serverUp, req, bytesCall, timeCall>>

----------------------------------------------------------------------------
(* Bounds of the model *)

NumReq == 2        \* requests handled concurrently
MaxExp == 5        \* byte counts go up to MaxMantissa * 1024^MaxExp
MaxSeconds == 130  \* formatTime is applied to 0..MaxSeconds and to DayMarks

----------------------------------------------------------------------------
(* JavaScript values *)

Undefined == [t |-> "undefined"]
Null == [t |-> "null"]
Str(s) == [t |-> "string", v |-> s]
Num(n) == [t |-> "number", v |-> n]
Obj(f) == [t |-> "object", v |-> f]

RECURSIVE Pow(_, _)
Pow(b, n) == IF n = 0 THEN 1 ELSE b * Pow(b, n - 1)

\* the digits of f, left-padded with zeros to d places
RECURSIVE Digits(_, _)
Digits(f, d) == IF d = 0 THEN "" ELSE Digits(f \div 10, d - 1) \o ToString(f % 10)

\* (num / den).toFixed(digits): the nearest multiple of 10^-digits, the larger
\* one on a tie, written with exactly `digits` decimals
toFixed(num, den, digits) ==
  LET n == (2 * num * Pow(10, digits) + den) \div (2 * den)
  IN  IF digits = 0
        THEN ToString(n)
        ELSE ToString(n \div Pow(10, digits)) \o "." \o Digits(n % Pow(10, digits), digits)

----------------------------------------------------------------------------
(* Formatters *)

k == 1024
sizes == <<"Bytes", "KB", "MB", "GB", "TB">>
DefaultDecimal == 2

\* Math.floor(Math.log(n) / Math.log(base)) for an integer n >= 1
RECURSIVE FloorLog(_, _)
FloorLog(n, base) == IF n < base THEN 0 ELSE 1 + FloorLog(n \div base, base)

\* sizes[i] inside a string concatenation: a missing element reads "undefined"
SizesAt(i) == IF i + 1 \in DOMAIN sizes THEN sizes[i + 1] ELSE "undefined"

\* i of formatBytes, for bytes = m * 1024^e
UnitIndex(bytes) == bytes.e + FloorLog(bytes.m, k)

formatBytes(bytes, decimal) ==
  IF bytes.m = 0
    THEN "0 Bytes"
    ELSE LET i == UnitIndex(bytes)
         IN  toFixed(bytes.m, Pow(k, i - bytes.e), decimal) \o " " \o SizesAt(i)

\* as formatTime, the hours not reduced modulo a day
formatTime_HoursNotWrapped(seconds) ==
  LET days == seconds \div (3600 * 24)
      hours == seconds \div 3600
      minutes == (seconds % 3600) \div 60
      remainingSeconds == seconds % 60
  IN  ToString(days) \o "d " \o ToString(hours) \o "h " \o ToString(minutes) \o "m "
        \o ToString(remainingSeconds) \o "s"

formatTime(seconds) ==
  LET days == seconds \div (3600 * 24)
      hours == (seconds % (3600 * 24)) \div 3600
      minutes == (seconds % 3600) \div 60
      remainingSeconds == seconds % 60
  IN  ToString(days) \o "d " \o ToString(hours) \o "h " \o ToString(minutes) \o "m "
        \o ToString(remainingSeconds) \o "s"

----------------------------------------------------------------------------
(* The host, as the os and process modules report it *)

Cpu == Obj([model |-> Str("Generic CPU"), speed |-> Num(2400)])

BaseHost ==
  [ cpus |-> <<Cpu, Cpu>>,
    arch |-> "x64",
    loadavg |-> <<Num(0), Num(1), Num(2)>>,
    totalmem |-> [m |-> 8, e |-> 3],
    freemem |-> [m |-> 2560, e |-> 2],
    platform |-> "linux",
    type |-> "Linux",
    release |-> "6.1.0",
    hostname |-> "sysview",
    uptime |-> 90061,
    userInfo |-> Obj([username |-> Str("node"), homedir |-> Str("/home/node")]),
    pid |-> 4242,
    title |-> "node",
    version |-> "v18.0.0",
    processUptime |-> 61,
    rss |-> [m |-> 40, e |-> 2],
    heapTotal |-> [m |-> 6, e |-> 2],
    heapUsed |-> [m |-> 4608, e |-> 1],
    external |-> [m |-> 0, e |-> 0],
    NODE_ENV |-> Undefined,
    networkInterfaces |-> Obj([lo |-> [t |-> "array", v |-> <<Obj([address |-> Str("127.0.0.1")])>>]]) ]

\* the hosts the server may run on: an ordinary one, and a platform on which
\* os.cpus() returns an empty list (here with NODE_ENV set)
Hosts ==
  { BaseHost,
    [BaseHost EXCEPT !.cpus = <<>>, !.NODE_ENV = Str("production")] }

----------------------------------------------------------------------------
(* Collectors.  A collector returns a value or throws: [t |-> "throw"]. *)

Throw(e) == [t |-> "throw", v |-> e]
Threw(x) == x.t = "throw"

Arr(s) == [t |-> "array", v |-> s]

\* a || b
OrElse(a, b) ==
  IF \/ a.t \in {"undefined", "null"}
     \/ (a.t = "string" /\ a.v = "")
    THEN b ELSE a

\* os.cpus()[0].model: reading a property of undefined is a TypeError
getCpuInfo(h) ==
  IF Len(h.cpus) = 0
    THEN Throw("TypeError")
    ELSE Obj([ model |-> h.cpus[1].v.model,
               cores |-> Num(Len(h.cpus)),
               architecture |-> Str(h.arch),
               loadAvg |-> Arr(h.loadavg) ])

\* ((1 - free / total) * 100).toFixed(2) + '%'
MemUsage(free, total) ==
  LET e0 == IF free.e < total.e THEN free.e ELSE total.e
      f == free.m * Pow(k, free.e - e0)
      t == total.m * Pow(k, total.e - e0)
  IN  toFixed((t - f) * 100, t, 2) \o "%"

getMemoryInfo(h) ==
  Obj([ total |-> Str(formatBytes(h.totalmem, DefaultDecimal)),
        free |-> Str(formatBytes(h.freemem, DefaultDecimal)),
        usage |-> Str(MemUsage(h.freemem, h.totalmem)) ])

getOsInfo(h) ==
  Obj([ platform |-> Str(h.platform),
        type |-> Str(h.type),
        release |-> Str(h.release),
        hostname |-> Str(h.hostname),
        uptime |-> Str(formatTime(h.uptime)) ])

getUserInfo(h) == h.userInfo

getProcessInfo(h) ==
  Obj([ pid |-> Num(h.pid),
        title |-> Str(h.title),
        nodeVersion |-> Str(h.version),
        uptime |-> Str(formatTime(h.processUptime)),
        memoryUsage |-> Obj([ rss |-> Str(formatBytes(h.rss, DefaultDecimal)),
                              heapTotal |-> Str(formatBytes(h.heapTotal, DefaultDecimal)),
                              heapUsed |-> Str(formatBytes(h.heapUsed, DefaultDecimal)),
                              external |-> Str(formatBytes(h.external, DefaultDecimal)) ]),
        env |-> Obj([ NODE_ENV |-> OrElse(h.NODE_ENV, Str("Not set")) ]) ])

getNetworkInfo(h) == h.networkInterfaces

----------------------------------------------------------------------------
(* Geolocation client *)

\* how the promise of axios.get('https://ipinfo.io/json') stands.  axios
\* rejects on a network error and on a status outside 2xx, and fulfils with
\* the parsed body in response.data otherwise.
Pending == [kind |-> "pending", error |-> "", data |-> Undefined]
Rejected(e) == [kind |-> "rejected", error |-> e, data |-> Undefined]
Fulfilled(d) == [kind |-> "fulfilled", error |-> "", data |-> d]

FullBody ==
  Obj([ ip |-> Str("203.0.113.7"), city |-> Str("Tallinn"), region |-> Str("Harjumaa"),
        country |-> Str("EE"), loc |-> Str("59.4370,24.7535") ])

\* what the collaborator can answer: no answer reaches us, an error status,
\* the documented body, a body without the expected fields, and the JSON
\* document null
GeoOutcomes ==
  { Rejected("ENOTFOUND"),
    Rejected("ERR_BAD_RESPONSE"),
    Fulfilled(FullBody),
    Fulfilled(Obj([ip |-> Str("203.0.113.7")])),
    Fulfilled(Null) }

\* obj.name
Prop(obj, name) ==
  IF obj.t = "object" /\ name \in DOMAIN obj.v THEN obj.v[name] ELSE Undefined

\* ${x} in a template literal
Template(x) ==
  CASE x.t = "string" -> x.v
    [] x.t = "number" -> ToString(x.v)
    [] x.t = "undefined" -> "undefined"
    [] x.t = "null" -> "null"
    [] OTHER -> "[object Object]"

SentinelGeo == Obj([location |-> Str("Location not found"), coordinates |-> Str("Not available")])

\* the value getGeolocation() resolves to, once axios.get has settled as `settled`
getGeolocation(settled) ==
  IF settled.kind = "rejected"
    THEN SentinelGeo                       \* catch (error)
    ELSE LET data == settled.data
         IN  IF data.t \in {"null", "undefined"}
               THEN SentinelGeo            \* destructuring throws TypeError, caught
               ELSE Obj([ location |-> Str(Template(Prop(data, "city")) \o ", "
                                           \o Template(Prop(data, "region")) \o ", "
                                           \o Template(Prop(data, "country"))),
                          coordinates |-> Prop(data, "loc") ])

----------------------------------------------------------------------------
(* Presenters *)

\* JSON.stringify(value, null, 2), as the JSON document it writes: a property
\* whose value is undefined is left out, an undefined array element is null
RECURSIVE JSONstringify(_)
JSONstringify(x) ==
  CASE x.t = "object" ->
         Obj([p \in {q \in DOMAIN x.v : x.v[q].t # "undefined"} |-> JSONstringify(x.v[p])])
    [] x.t = "array" ->
         Arr([i \in DOMAIN x.v |-> IF x.v[i].t = "undefined" THEN Null ELSE JSONstringify(x.v[i])])
    [] OTHER -> x

Section(h2, pres) == [h2 |-> h2, pre |-> pres]

buildHtmlPage(data, geoData) ==
  [ doctype |-> "html",
    title |-> "SysView Dashboard",
    sections |->
      << Section("CPU Info", <<JSONstringify(data.v.cpu)>>),
         Section("Memory Info", <<JSONstringify(data.v.memory)>>),
         Section("OS Info", <<JSONstringify(data.v.os)>>),
         Section("User Info", <<JSONstringify(data.v.user)>>),
         Section("Process Info", <<JSONstringify(data.v.process)>>),
         Section("Network Info", <<JSONstringify(data.v.network)>>),
         Section("Geolocation Info",
                 << Str("Location: " \o Template(geoData.v.location)),
                    Str("Coordinates: " \o Template(geoData.v.coordinates)) >>) >> ]

----------------------------------------------------------------------------
(* The response object of a request *)

NoHeaders == [n \in {} |-> ""]

\* a fresh http.ServerResponse: statusCode is 200 until the handler sets it
NewResponse == [statusCode |-> 200, headers |-> NoHeaders, body |-> Undefined, ended |-> FALSE]

setStatusCode(res, code) == [res EXCEPT !.statusCode = code]
setHeader(res, name, value) == [res EXCEPT !.headers = (name :> value) @@ @]
writeHead(res, code, name, value) == setHeader(setStatusCode(res, code), name, value)
end(res, body) == [res EXCEPT !.body = body, !.ended = TRUE]

----------------------------------------------------------------------------
(* Request handler: the callback of http.createServer *)

\* url.parse(req.url, true).pathname: req.url up to its first "?" or "#"
pathname(reqUrl) ==
  LET marks == {i \in DOMAIN reqUrl : reqUrl[i] \in {"?", "#"}}
  IN  IF marks = {}
        THEN reqUrl
        ELSE SubSeq(reqUrl, 1, (CHOOSE i \in marks : \A j \in marks : i <= j) - 1)

\* the branch of the handler a path name takes
Route(path) ==
  IF path = <<"/">> THEN "html"
  ELSE IF path = <<"/", "a", "p", "i">> THEN "api"
  ELSE "notfound"

\* as NotFound, the status code left at its default
NotFound_StatusNotSet(res) ==
  end(setHeader(res, "Content-Type", "application/json"),
      JSONstringify(Obj([error |-> Str("Route not found")])))

\* the else branch
NotFound(res) ==
  end(setHeader(setStatusCode(res, 404), "Content-Type", "application/json"),
      JSONstringify(Obj([error |-> Str("Route not found")])))

\* the object literals of the two branches; a throwing collector aborts them
HtmlData(h) ==
  IF Threw(getCpuInfo(h))
    THEN getCpuInfo(h)
    ELSE Obj([ cpu |-> getCpuInfo(h), memory |-> getMemoryInfo(h), os |-> getOsInfo(h),
               user |-> getUserInfo(h), process |-> getProcessInfo(h),
               network |-> getNetworkInfo(h) ])

\* as ApiData, the geolocation property left out as in the "/" branch
ApiData_NoGeolocation(h, geoData) ==
  IF Threw(getCpuInfo(h))
    THEN getCpuInfo(h)
    ELSE Obj([ cpu |-> getCpuInfo(h), memory |-> getMemoryInfo(h), os |-> getOsInfo(h),
               user |-> getUserInfo(h), process |-> getProcessInfo(h),
               network |-> getNetworkInfo(h) ])

ApiData(h, geoData) ==
  IF Threw(getCpuInfo(h))
    THEN getCpuInfo(h)
    ELSE Obj([ cpu |-> getCpuInfo(h), memory |-> getMemoryInfo(h), os |-> getOsInfo(h),
               user |-> getUserInfo(h), process |-> getProcessInfo(h),
               network |-> getNetworkInfo(h), geolocation |-> geoData ])

\* as ServeHtml, with the content type of the /api branch
ServeHtml_JsonType(res, data, geoData) ==
  end(writeHead(res, 200, "Content-Type", "application/json"), buildHtmlPage(data, geoData))

ServeHtml(res, data, geoData) ==
  end(writeHead(res, 200, "Content-Type", "text/html"), buildHtmlPage(data, geoData))

ServeApi(res, data) ==
  end(writeHead(res, 200, "Content-Type", "application/json"), JSONstringify(data))

Requests == 1 .. NumReq
Methods == {"GET", "POST"}
Paths == { <<"/">>, <<"/", "a", "p", "i">>, <<"/", "a">> }
Queries == { <<>>, <<"?", "a">> }
Urls == { p \o q : p \in Paths, q \in Queries } \ { <<"/", "?", "a">> }

NotCalled == [kind |-> "none", error |-> "", data |-> Undefined]

IdleReq ==
  [ phase |-> "idle", url |-> <<>>, method |-> "", axios |-> NotCalled,
    geoData |-> Undefined, res |-> NewResponse, log |-> <<>> ]

\* as HandlerStart, the head written before the outbound call is awaited
HandlerStart_HeadBeforeAwait(reqUrl, method) ==
  IF Route(pathname(reqUrl)) \in {"html", "api"}
    THEN [ IdleReq EXCEPT !.phase = "awaitGeo", !.url = reqUrl, !.method = method,
                          !.axios = Pending,
                          !.res = writeHead(NewResponse, 200, "Content-Type", "text/html"),
                          !.log = <<"writeHead", "call">> ]
    ELSE [ IdleReq EXCEPT !.phase = "done", !.url = reqUrl, !.method = method,
                          !.res = NotFound(NewResponse), !.log = <<"writeHead", "end">> ]

\* The handler from its first line to the await of getGeolocation(), or to its
\* end on the else branch.
HandlerStart(reqUrl, method) ==
  IF Route(pathname(reqUrl)) \in {"html", "api"}
    THEN [ IdleReq EXCEPT !.phase = "awaitGeo", !.url = reqUrl, !.method = method,
                          !.axios = Pending, !.log = <<"call">> ]
    ELSE [ IdleReq EXCEPT !.phase = "done", !.url = reqUrl, !.method = method,
                          !.res = NotFound(NewResponse), !.log = <<"writeHead", "end">> ]

\* The handler from the settling of axios.get to its end: the rest of
\* getGeolocation, the collectors, the presenter and the response.
HandlerResume(q, h, settled) ==
  LET geoData == getGeolocation(settled)
      data == IF Route(pathname(q.url)) = "html" THEN HtmlData(h) ELSE ApiData(h, geoData)
  IN  IF Threw(data)
        THEN [ q EXCEPT !.phase = "failed", !.axios = settled, !.geoData = geoData,
                        !.log = @ \o <<"settled", "collect">> ]
        ELSE [ q EXCEPT !.phase = "done", !.axios = settled, !.geoData = geoData,
                        !.res = IF Route(pathname(q.url)) = "html"
                                  THEN ServeHtml(q.res, data, geoData)
                                  ELSE ServeApi(q.res, data),
                        !.log = @ \o <<"settled", "collect", "writeHead", "present", "end">> ]

----------------------------------------------------------------------------
(* Calls of the formatters *)

Mantissas == {0, 1, 512, 1023, 1024, 1025, 1536, 2047}
DecimalArgs == { <<>>, <<0>>, <<1>>, <<2>> }     \* <<>>: the argument is left out
DayMarks == {3599, 3600, 3661, 86399, 86400, 90061, 172799, 180122}

NoBytesCall == [bytes |-> [m |-> 0, e |-> 0], decimal |-> <<>>, ret |-> "", returned |-> FALSE]
NoTimeCall == [seconds |-> 0, ret |-> "", returned |-> FALSE]

\* decimal = 2 when the argument is left out
DecimalOf(args) == IF args = <<>> THEN DefaultDecimal ELSE args[1]

----------------------------------------------------------------------------
(* Actions *)

\* request r arrives and the handler runs up to its first suspension
Receive(r, reqUrl, method) ==
  /\ serverUp
  /\ req[r].phase = "idle"
  /\ req' = [req EXCEPT ![r] = HandlerStart(reqUrl, method)]
  /\ UNCHANGED <<host, serverUp, bytesCall, timeCall>>

\* the outbound call of request r settles and the handler runs to its end.  An
\* exception in the async handler is an unhandled promise rejection: depending
\* on the node version it ends the process or only prints a warning, and the
\* response is never written.
GeoSettles(r, settled) ==
  /\ serverUp
  /\ req[r].phase = "awaitGeo"
  /\ req' = [req EXCEPT ![r] = HandlerResume(req[r], host, settled)]
  /\ IF req'[r].phase = "failed"
       THEN serverUp' \in BOOLEAN
       ELSE serverUp' = serverUp
  /\ UNCHANGED <<host, bytesCall, timeCall>>

CallFormatBytes ==
  /\ ~bytesCall.returned
  /\ bytesCall' = [bytesCall EXCEPT !.ret = formatBytes(bytesCall.bytes, DecimalOf(bytesCall.decimal)),
                                    !.returned = TRUE]
  /\ UNCHANGED <<host, serverUp, req, timeCall>>

CallFormatTime ==
  /\ ~timeCall.returned
  /\ timeCall' = [timeCall EXCEPT !.ret = formatTime(timeCall.seconds), !.returned = TRUE]
  /\ UNCHANGED <<host, serverUp, req, bytesCall>>

----------------------------------------------------------------------------
(* Specifications *)

Init ==
  /\ host \in Hosts
  /\ serverUp = TRUE
  /\ req = [r \in Requests |-> IdleReq]
  /\ bytesCall = NoBytesCall
  /\ timeCall = NoTimeCall

Next ==
  \/ \E r \in Requests, u \in Urls, m \in Methods : Receive(r, u, m)
  \/ \E r \in Requests, s \in GeoOutcomes : GeoSettles(r, s)

Spec == Init /\ [][Next]_vars

\* The server on the ordinary host, where no collector throws.  Node runs the
\* handler of every request that arrives; nothing makes the collaborator answer.
InitOrdinary == Init /\ host = BaseHost

FairSpec ==
  /\ InitOrdinary
  /\ [][Next]_vars
  /\ \A r \in Requests : WF_vars(\E u \in Urls, m \in Methods : Receive(r, u, m))

InitBytes ==
  /\ host = BaseHost
  /\ serverUp = TRUE
  /\ req = [r \in Requests |-> IdleReq]
  /\ bytesCall \in { [NoBytesCall EXCEPT !.bytes = [m |-> m, e |-> e], !.decimal = d] :
                       m \in Mantissas, e \in 0 .. MaxExp, d \in DecimalArgs }
  /\ timeCall = NoTimeCall

NextBytes == CallFormatBytes

SpecBytes == InitBytes /\ [][NextBytes]_vars

InitTime ==
  /\ host = BaseHost
  /\ serverUp = TRUE
  /\ req = [r \in Requests |-> IdleReq]
  /\ bytesCall = NoBytesCall
  /\ timeCall \in { [NoTimeCall EXCEPT !.seconds = t] : t \in (0 .. MaxSeconds) \cup DayMarks }

NextTime == CallFormatTime

SpecTime == InitTime /\ [][NextTime]_vars

----------------------------------------------------------------------------
(* Vocabulary of the properties *)

RootPath == <<"/">>
ApiPath == <<"/", "a", "p", "i">>

\* request r was sent to path p, with any query string
SentTo(r, p) == \E q \in Queries : req[r].url = p \o q

Answered(r) == req[r].res.ended
ContentType(r) ==
  IF "Content-Type" \in DOMAIN req[r].res.headers THEN req[r].res.headers["Content-Type"] ELSE ""

GeoFields == {"city", "region", "country", "loc"}

\* the collaborator was unreachable, answered an error status, or sent a body
\* lacking one of the expected fields
GeoFailed(a) ==
  \/ a.kind = "rejected"
  \/ /\ a.kind = "fulfilled"
     /\ \/ a.data.t # "object"
        \/ \E f \in GeoFields : f \notin DOMAIN a.data.v

Count(log, ev) == Cardinality({i \in DOMAIN log : log[i] = ev})

----------------------------------------------------------------------------
(* Properties of the request handler *)

\* C1: every answered request to /api whose geolocation call failed
\* (unreachable, error status, or a body lacking city, region, country or loc)
\* has status 200 and the sentinel geolocation in its body.
C1_GeoFailureGivesSentinel ==
  \A r \in Requests :
    (req[r].phase = "done" /\ SentTo(r, ApiPath) /\ GeoFailed(req[r].axios))
      => /\ req[r].res.statusCode = 200
         /\ req[r].res.body.v.geolocation =
              Obj([location |-> Str("Location not found"), coordinates |-> Str("Not available")])

\* C2: a request whose path name is neither "/" nor "/api" is answered, whatever
\* its method and query string, with status 404, a JSON content type and the
\* body {"error": "Route not found"}.
C2_UnknownPathIs404 ==
  \A r \in Requests :
    \A p \in Paths \ {RootPath, ApiPath} :
      (req[r].phase # "idle" /\ SentTo(r, p))
        => /\ Answered(r)
           /\ req[r].res.statusCode = 404
           /\ ContentType(r) = "application/json"
           /\ req[r].res.body = Obj([error |-> Str("Route not found")])

C2_Witness ==
  \E r1, r2 \in Requests :
    /\ req[r1].url = <<"/", "a">> /\ req[r1].method = "GET" /\ Answered(r1)
    /\ req[r2].url = <<"/", "a", "?", "a">> /\ req[r2].method = "POST" /\ Answered(r2)

\* C3: every response to a request to "/" has status 200 and content type
\* text/html, whether the geolocation call succeeded or failed.
C3_RootIsHtml200 ==
  \A r \in Requests :
    (Answered(r) /\ SentTo(r, RootPath))
      => /\ req[r].res.statusCode = 200
         /\ ContentType(r) = "text/html"
         /\ req[r].axios.kind \in {"rejected", "fulfilled"}

C3_Witness ==
  \E r1, r2 \in Requests :
    /\ SentTo(r1, RootPath) /\ Answered(r1) /\ req[r1].axios.kind = "rejected"
    /\ SentTo(r2, RootPath) /\ Answered(r2) /\ req[r2].axios = Fulfilled(FullBody)

\* C4: the body of every response to /api is a JSON object whose top-level keys
\* are exactly cpu, memory, os, user, process, network and geolocation, on the
\* success and on the failure of the geolocation call.
C4_ApiKeys ==
  \A r \in Requests :
    (Answered(r) /\ SentTo(r, ApiPath))
      => /\ req[r].res.body.t = "object"
         /\ DOMAIN req[r].res.body.v =
              {"cpu", "memory", "os", "user", "process", "network", "geolocation"}

C4_Witness ==
  \E r1, r2 \in Requests :
    /\ SentTo(r1, ApiPath) /\ Answered(r1) /\ GeoFailed(req[r1].axios)
    /\ SentTo(r2, ApiPath) /\ Answered(r2) /\ ~GeoFailed(req[r2].axios)

\* C5: the GeoResult of every settled call has both fields populated with
\* strings: location is "City, Region, Country" built from three present
\* fields or the sentinel, coordinates is the "lat,long" string or the sentinel.
C5_GeoResultPopulated ==
  \A r \in Requests :
    (req[r].axios.kind \in {"rejected", "fulfilled"})
      => LET g == req[r].geoData.v
             d == req[r].axios.data
         IN  /\ g.location.t = "string"
             /\ g.coordinates.t = "string"
             /\ \/ g = SentinelGeo.v
                \/ /\ ~GeoFailed(req[r].axios)
                   /\ g.location.v = d.v.city.v \o ", " \o d.v.region.v \o ", " \o d.v.country.v
                   /\ g.coordinates = d.v.loc

\* C6: every request to "/" or "/api" that awaits the geolocation call is
\* eventually answered, also when the collaborator never answers.
C6_EveryRequestAnswered ==
  \A r \in Requests : (req[r].phase = "awaitGeo") ~> Answered(r)

\* C7: no failure while handling a request stops the server process or leaves a
\* request without the response of its route.
C7_FailureIsolated ==
  /\ serverUp
  /\ \A r \in Requests : req[r].phase # "failed"

\* C10: a request to "/" or "/api" issues exactly one outbound call, and the
\* collectors, the presenter and the writing of status and body come after that
\* call has settled; a request to another path issues no call.
C10_OneCallThenRest ==
  \A r \in Requests :
    LET q == req[r]
        geo == SentTo(r, RootPath) \/ SentTo(r, ApiPath)
    IN  /\ (q.phase # "idle" /\ geo) => Count(q.log, "call") = 1
        /\ (q.phase # "idle" /\ ~geo) => (Count(q.log, "call") = 0 /\ q.axios.kind = "none")
        /\ geo => \A i \in DOMAIN q.log :
                    q.log[i] \in {"collect", "writeHead", "present", "end"}
                      => \E j \in 1 .. (i - 1) :
                           /\ q.log[j] = "settled"
                           /\ \E c \in 1 .. (j - 1) : q.log[c] = "call"
        /\ (geo /\ q.axios.kind = "pending") => q.res = NewResponse
        /\ (geo /\ Answered(r)) => q.axios.kind \in {"rejected", "fulfilled"}

C10_Witness ==
  \E r1, r2 \in Requests :
    /\ SentTo(r1, ApiPath) /\ Answered(r1)
    /\ req[r1].log = <<"call", "settled", "collect", "writeHead", "present", "end">>
    /\ ~SentTo(r2, RootPath) /\ ~SentTo(r2, ApiPath) /\ Answered(r2)

----------------------------------------------------------------------------
(* Properties of the formatters *)

\* 1024^i <= bytes, for i in 0 .. 4 and a mantissa below 1024^2
AtLeastUnit(bytes, i) ==
  IF bytes.e >= i THEN bytes.m >= 1
  ELSE IF i - bytes.e = 1 THEN bytes.m >= k
  ELSE FALSE

\* the largest unit index of sizes whose unit does not exceed bytes
LargestUnit(bytes) ==
  CHOOSE i \in 0 .. 4 : AtLeastUnit(bytes, i) /\ \A j \in 0 .. 4 : AtLeastUnit(bytes, j) => j <= i

\* C8: formatBytes(0) is "0 Bytes", and for n >= 1 the result is
\* "<value> <unit>", unit the largest of Bytes, KB, MB, GB, TB with
\* n / 1024^i >= 1 and value n / 1024^i with the requested decimals.
C8_FormatBytesTotal ==
  bytesCall.returned =>
    LET b == bytesCall.bytes
        dec == IF bytesCall.decimal = <<>> THEN 2 ELSE bytesCall.decimal[1]
    IN  IF b.m = 0
          THEN bytesCall.ret = "0 Bytes"
          ELSE LET i == LargestUnit(b)
                   num == IF b.e >= i THEN b.m * Pow(1024, b.e - i) ELSE b.m
                   den == IF b.e >= i THEN 1 ELSE 1024
               IN  bytesCall.ret = toFixed(num, den, dec) \o " " \o sizes[i + 1]

\* C9: formatTime(t) is "<d>d <h>h <m>m <s>s" with 0 <= h < 24, 0 <= m < 60,
\* 0 <= s < 60 and d*86400 + h*3600 + m*60 + s = t.
C9_FormatTimeDecomposes ==
  timeCall.returned =>
    /\ \E d \in 0 .. 3, h \in 0 .. 23, m \in 0 .. 59 :
         LET s == timeCall.seconds - d * 86400 - h * 3600 - m * 60
         IN  /\ s \in 0 .. 59
             /\ timeCall.ret = ToString(d) \o "d " \o ToString(h) \o "h " \o ToString(m)
                                 \o "m " \o ToString(s) \o "s"
    /\ timeCall.seconds = 90061 => timeCall.ret = "1d 1h 1m 1s"
    /\ timeCall.seconds = 0 => timeCall.ret = "0d 0h 0m 0s"

C9_Witness == timeCall.returned /\ timeCall.seconds = 90061 /\ timeCall.ret = "1d 1h 1m 1s"

====
